---- MODULE Spec2Model ----
(***************************************************************************)
(* Queue routing and agent-assignment coordinator of the call center       *)
(* backend: the Redis queue store and availability registry                *)
(* (services/queue_service.py), the routing endpoint (api/queues.py), the  *)
(* call-leg and conference records (models/, api/conferences.py,           *)
(* api/swml.py).  Request handlers run concurrently; every step below is   *)
(* one Redis command or one database transaction of a handler.             *)
(*                                                                         *)
(* Specifications:                                                         *)
(*   Spec       route requests and socket take_call on the queue store     *)
(*   SpecClock  route requests while the clock advances                    *)
(*   SpecAgent  route requests with PUT /agent/status and GET /next        *)
(*   SpecFault  route requests while Redis or the database is unreachable  *)
(*   SpecLegs   route requests with the initial-call and conference        *)
(*              join/leave webhooks                                        *)
(*   SpecConf   get-or-create and end of the agents' conferences           *)
(*   SpecRR     the round-robin selection of route on its own              *)
(*   SpecWait   route requests after initial-call, the clock advancing     *)
(*              between requests                                           *)
(*   SpecEnd    route requests with the call-status webhook and the end    *)
(*              request                                                    *)
(*   SpecNoJoin route requests whose agent never answers, with weak        *)
(*              fairness of the server's steps                             *)
(*   SpecSocket the socket event set_agent_status, one event at a time       *)
(*   SpecPart   conference join and leave events, move and end requests      *)
(*   SpecAnswer the answers of route, hold-menu and hold-loop while Redis or  *)
(*              the database is unreachable                                *)
(*   SpecPriority one route request with its priority and urgency fields    *)
(*   SpecLegApi create_initial_leg and create_next_leg in any sequence        *)
(*   SpecExpire route requests while status records reach their lifetime      *)
(*   SpecTransfer route requests with a transfer of a call to an agent       *)
(*   SpecRoom   one route request with conference get-or-create, join, mute   *)
(*              and leave events                                           *)
(*   SpecHeal   one call in the hold loop, its route requests healing stale *)
(*              members, while an agent goes available                     *)
(*   SpecHold   one call in the hold loop the gateway runs, with weak      *)
(*              fairness of the gateway and the server                     *)
(***************************************************************************)
EXTENDS Integers, Sequences, FiniteSets, TLC

\* ------------------------------------------------------------------ bounds
NumCalls == 2
NumAgents == 2
NumProcs == 2
MaxOps == 2
MaxRoutes == 2
MaxStatusOps == 1
MaxAgentOps == 1
MaxWebhooks == 2
MaxConfOps == 3
MaxTicks == 1
MaxFaults == 1
MaxSelections == 3
MaxEvents == 1
MaxHoldClock == 180
MaxArrivals == 1
MaxSocketOps == 3
MaxPartOps == 3
MaxLegOps == 3
MaxRoomOps == 3

\* ------------------------------------------------------- program constants
PriorityWeight == 1000000
PriorityBase == 10
MAX_WAIT_BEFORE_AI_OFFER == 120
HoldSeconds == 30
HighPriority == 2
DefaultPriority == 5
LowPriority == 8

Calls == 1..NumCalls
Agents == 1..NumAgents
Procs == 1..NumProcs
Queues == {"sales", "support"}
Priorities == {HighPriority, LowPriority}
StatusSets == {"available", "busy", "break", "offline"}
\* The statuses the socket event set_agent_status accepts.
SocketStatuses == {"available", "busy", "after-call", "break", "offline"}
TickSteps == {MAX_WAIT_BEFORE_AI_OFFER + 1}

\* redis.setex(agent_key, 28800, ...): the lifetime of a status record, in seconds
STATUS_TTL == 28800

NoCall == 0
NoAgent == 0
NoEntry == [call_id |-> NoCall, priority |-> 0, enqueued_at |-> 0]
NoRecord == [status |-> "none", current_call_id |-> NoCall]
NoCursor == -2

VARIABLES
    now,          \* datetime.utcnow(), in seconds
    down,         \* which external dependency is unreachable: none, redis, db
    queue,        \* Redis sorted sets queue:<queue_id>
    agentRec,     \* Redis keys agent:<agent_id>
    statusSet,    \* Redis sets agents:<status>
    rr,           \* Redis keys round_robin:<queue_id>
    hasAddress,   \* users.signalwire_address is set
    calls,        \* table calls, by signalwire_call_sid
    legs,         \* table call_legs
    conferences,  \* table conferences
    participants, \* table conference_participants
    proc,         \* the request handlers in progress
    budget,       \* how many handlers of each kind may still start
    decision,     \* the last SWML decision route returned for each call
    assignLog,    \* history: the call_assignment events route emitted to the agent's room
    availCount,   \* history: how often each agent's record was written available
    dqLog,        \* history: entries returned by dequeue operations
    enqOrder,     \* history: entries of each queue in insertion order
    latest,       \* history: the latest started set_agent_status per agent
    confLast,     \* history: the last completed conference operation per name
    selLog,       \* history: agents selected, per queue
    nextOp        \* history: the number of the next handler invocation

redisVars == <<queue, agentRec, statusSet, rr>>
dbVars == <<hasAddress, calls, legs, conferences, participants>>
histVars == <<decision, assignLog, availCount, dqLog, enqOrder, latest, confLast, selLog, nextOp>>
vars == <<now, down, queue, agentRec, statusSet, rr, hasAddress, calls, legs, conferences,
          participants, proc, budget, decision, assignLog, availCount, dqLog, enqOrder,
          latest, confLast, selLog, nextOp>>

\* ----------------------------------------------------------- queue store

\* score = (10 - priority) * 1000000 + timestamp
Score(e) == (PriorityBase - e.priority) * PriorityWeight + e.enqueued_at

\* Members of equal score are ordered by the bytes of the member, the JSON
\* text of call_data: call_id first, then priority, then enqueued_at.
MemberLess(a, b) ==
    \/ a.call_id < b.call_id
    \/ a.call_id = b.call_id /\ a.priority < b.priority
    \/ a.call_id = b.call_id /\ a.priority = b.priority /\ a.enqueued_at < b.enqueued_at

Before(a, b) == Score(a) < Score(b) \/ (Score(a) = Score(b) /\ MemberLess(a, b))

\* ZRANGE key 0 -1
ZRange(S) ==
    [i \in 1..Cardinality(S) |->
        CHOOSE e \in S : Cardinality({o \in S : Before(o, e)}) = i - 1]

\* ZRANGE key 0 0
ZRangeHead(S) == IF S = {} THEN NoEntry ELSE ZRange(S)[1]

\* _get_queue_position: index of the first entry of the call, 0 when absent
QueuePosition(S, c) ==
    LET z == ZRange(S)
        hits == {i \in 1..Len(z) : z[i].call_id = c}
    IN IF hits = {} THEN 0 ELSE CHOOSE i \in hits : \A j \in hits : i <= j

RECURSIVE SeqWithout(_, _)
SeqWithout(s, e) ==
    IF s = <<>> THEN <<>>
    ELSE IF Head(s) = e THEN Tail(s) ELSE <<Head(s)>> \o SeqWithout(Tail(s), e)

\* sorted(available_agents)
RECURSIVE Sorted(_)
Sorted(S) ==
    IF S = {} THEN <<>>
    ELSE LET m == CHOOSE x \in S : \A y \in S : x <= y
         IN <<m>> \o Sorted(S \ {m})

\* ------------------------------------------------------------- handlers

Idle == [op |-> "idle", pc |-> "idle", id |-> 0, call |-> NoCall, queue |-> "none",
         priority |-> 0, agent |-> NoAgent, status |-> "none", curcall |-> NoCall,
         avail |-> <<>>, last_index |-> -1, attempts |-> 0, head |-> NoEntry,
         position |-> 0, ret |-> "idle", conf |-> <<"none", 0>>, seen |-> "none",
         target |-> <<"none", 0>>, part |-> 0,
         req |-> [priority |-> 0, global_priority |-> 0, urgency |-> ""],
         leg_type |-> "none", reason |-> "none", to |-> NoAgent]

RedisLabels == {"r_enqueue", "r_pos", "r_avail", "r_scan", "r_heal", "dq_read", "dq_rem",
                "sas_setex", "sas_sadd", "sas_srem"}
DbLabels == {"r_upsert", "r_scan", "r_assign", "r_hold", "n_db"}

\* A request is served by the first free worker.
Start(p, kind, rec) ==
    /\ proc[p].op = "idle"
    /\ \A o \in Procs : o < p => proc[o].op # "idle"
    /\ budget[kind] > 0
    /\ budget["ops"] > 0
    /\ budget' = [budget EXCEPT ![kind] = @ - 1, !["ops"] = @ - 1]
    /\ proc' = [proc EXCEPT ![p] = rec]
    /\ nextOp' = nextOp + 1

Finish(p) == proc' = [proc EXCEPT ![p] = Idle]

Goto(p, label) == proc' = [proc EXCEPT ![p].pc = label]

\* The SWML answers of route. conf: the conference of join_conference; dest: the AI
\* agent a transfer names; requeue: the queue whose route endpoint a transfer names.
NoConf == <<"none", 0>>

NoDecision == [kind |-> "none", agent |-> NoAgent, position |-> 0, conf |-> NoConf,
               dest |-> "none", requeue |-> "none"]

HoldDecision(pos, q) == [NoDecision EXCEPT !.kind = "hold", !.position = pos, !.requeue = q]

ErrorDecision == [NoDecision EXCEPT !.kind = "error"]

\* ai_agent_map.get(queue_id, 'receptionist')
AiAgent(q) ==
    IF q = "sales" THEN "sales-ai"
    ELSE IF q \in {"support", "billing"} THEN "support-ai"
    ELSE "receptionist"

FallbackDecision(q) == [NoDecision EXCEPT !.kind = "fallback", !.dest = AiAgent(q)]

JoinDecision(a, name) == [NoDecision EXCEPT !.kind = "join", !.agent = a, !.conf = name]

\* The instructions of the main section of each SWML answer, in order.
Swml(d) ==
    IF d.kind = "join" THEN <<"say", "join_conference">>
    ELSE IF d.kind = "hold" THEN <<"say", "silence", "say", "transfer">>
    ELSE IF d.kind = "fallback" THEN <<"say", "transfer">>
    ELSE IF d.kind = "error" THEN <<"say", "hangup">>
    ELSE IF d.kind = "menu" THEN <<"prompt_say", "switch">>
    ELSE IF d.kind = "menu_error" THEN <<"say", "transfer">>
    ELSE IF d.kind = "loop" THEN <<"say", "silence", "say", "silence", "transfer">>
    ELSE IF d.kind = "loop_error" THEN <<"silence", "transfer">>
    ELSE <<>>

QueueOrder == <<"sales", "support">>
QueueIndex(q) == CHOOSE i \in 1..Len(QueueOrder) : QueueOrder[i] = q

\* ------------------------------------------ QueueService.set_agent_status

\* Enter set_agent_status(agent, status, current_call_id); continue at ret.
CallSetStatus(rec, a, s, cc, ret) ==
    [rec EXCEPT !.pc = "sas_setex", !.agent = a, !.status = s, !.curcall = cc, !.ret = ret]

\* redis.setex(agent_key, 28800, json.dumps(agent_data))
SasSetex(p) ==
    /\ proc[p].pc = "sas_setex"
    /\ down # "redis"
    /\ agentRec' = [agentRec EXCEPT ![proc[p].agent] =
                       [status |-> proc[p].status, current_call_id |-> proc[p].curcall]]
    /\ availCount' = [availCount EXCEPT ![proc[p].agent] =
                         IF proc[p].status = "available" THEN @ + 1 ELSE @]
    /\ latest' = [latest EXCEPT ![proc[p].agent] =
                     [id |-> proc[p].id, status |-> proc[p].status, done |-> FALSE]]
    /\ Goto(p, "sas_sadd")
    /\ UNCHANGED <<now, down, queue, statusSet, rr, dbVars, budget, decision, assignLog,
                   dqLog, enqOrder, confLast, selLog, nextOp>>

\* redis.sadd(f"agents:{status}", agent_id)
SasSadd(p) ==
    /\ proc[p].pc = "sas_sadd"
    /\ down # "redis"
    /\ statusSet' = [statusSet EXCEPT ![proc[p].status] = @ \cup {proc[p].agent}]
    /\ Goto(p, "sas_srem")
    /\ UNCHANGED <<now, down, queue, agentRec, rr, dbVars, budget, histVars>>

\* The sets set_agent_status removes the agent from.
OtherStatusSets(s) == StatusSets \ {s}

\* Where a handler continues once dequeue_call has returned.
AfterDequeue(rec, got) ==
    IF rec.op = "route" THEN [rec EXCEPT !.pc = "r_assign"]
    ELSE IF rec.op = "next" THEN (IF got THEN [rec EXCEPT !.pc = "n_db"] ELSE Idle)
    ELSE IF rec.op = "status" /\ ~got /\ QueueIndex(rec.queue) < Len(QueueOrder)
         THEN [rec EXCEPT !.pc = "dq_read", !.queue = QueueOrder[QueueIndex(rec.queue) + 1]]
    ELSE Idle

\* Where a handler continues once set_agent_status has returned.
AfterSetStatus(rec) ==
    IF rec.ret = "dq_ret" THEN AfterDequeue(rec, TRUE)
    ELSE IF rec.ret = "u_deq"
         THEN (IF rec.status = "available"
               THEN [rec EXCEPT !.pc = "dq_read", !.queue = QueueOrder[1]]
               ELSE Idle)
    ELSE IF rec.ret = "n_deq" THEN [rec EXCEPT !.pc = "dq_read"]
    ELSE IF rec.ret = "t_to" THEN CallSetStatus(rec, rec.to, "busy", rec.call, "t_done")
    ELSE Idle

\* for other_status in [...]: redis.srem(f"agents:{other_status}", agent_id)
SasSrem(p) ==
    /\ proc[p].pc = "sas_srem"
    /\ down # "redis"
    /\ statusSet' = [s \in DOMAIN statusSet |->
                       IF s \in OtherStatusSets(proc[p].status)
                       THEN statusSet[s] \ {proc[p].agent} ELSE statusSet[s]]
    /\ latest' = [latest EXCEPT ![proc[p].agent] =
                     IF @.id = proc[p].id THEN [@ EXCEPT !.done = TRUE] ELSE @]
    /\ proc' = [proc EXCEPT ![p] = AfterSetStatus(proc[p])]
    /\ UNCHANGED <<now, down, queue, agentRec, rr, dbVars, budget, decision, assignLog,
                   availCount, dqLog, enqOrder, confLast, selLog, nextOp>>

\* ---------------------------------------------- QueueService.dequeue_call

\* calls = redis.zrange(queue_key, 0, 0); if not calls: return None
DqRead(p) ==
    /\ proc[p].pc = "dq_read"
    /\ down # "redis"
    /\ LET h == ZRangeHead(queue[proc[p].queue])
       IN proc' = [proc EXCEPT ![p] =
                      IF h = NoEntry THEN AfterDequeue(proc[p], FALSE)
                      ELSE [proc[p] EXCEPT !.pc = "dq_rem", !.head = h]]
    /\ UNCHANGED <<now, down, redisVars, dbVars, budget, histVars>>

\* redis.zrem(queue_key, call_data_str), then set_agent_status(agent, "busy", call_id)
DqRem(p) ==
    /\ proc[p].pc = "dq_rem"
    /\ down # "redis"
    /\ LET q == proc[p].queue
           h == proc[p].head
       IN /\ queue' = [queue EXCEPT ![q] = @ \ {h}]
          /\ enqOrder' = [enqOrder EXCEPT ![q] = SeqWithout(@, h)]
          /\ dqLog' = dqLog \cup {[queue |-> q, entry |-> h, op |-> proc[p].id,
                                   removed |-> h \in queue[q]]}
          /\ proc' = [proc EXCEPT ![p] =
                         IF proc[p].op = "take" THEN Idle
                         ELSE CallSetStatus(proc[p], proc[p].agent, "busy", h.call_id, "dq_ret")]
    /\ UNCHANGED <<now, down, agentRec, statusSet, rr, dbVars, budget, decision, assignLog,
                   availCount, latest, confLast, selLog, nextOp>>

\* ------------------------------------------------------ CallLeg, Conference

NoLeg == [id |-> 0, call |-> NoCall, leg_number |-> 0, leg_type |-> "none", status |-> "none",
          reason |-> "none", conf |-> <<"none", 0>>, user |-> NoAgent, started_at |-> 0,
          ended_at |-> -1, duration |-> -1]

\* CallLeg.get_active_leg: filter_by(call_id, status='active')
ActiveLegs(c) == {l \in legs : l.call = c /\ l.status = "active"}

\* end_leg without its transition_reason assignment
EndLegWithoutReason(l, reason) ==
    [l EXCEPT !.status = "completed", !.ended_at = now, !.duration = now - l.started_at]

\* CallLeg.end_leg
EndLeg(l, reason) ==
    [l EXCEPT !.status = "completed", !.ended_at = now, !.duration = now - l.started_at,
              !.reason = IF reason # "none" THEN reason ELSE l.reason]

NewLeg(c, type, number, st, user, conf) ==
    [id |-> Cardinality(legs) + 1, call |-> c, leg_number |-> number, leg_type |-> type,
     status |-> st, reason |-> "none", conf |-> conf, user |-> user, started_at |-> now,
     ended_at |-> -1, duration |-> -1]

\* create_next_leg without the end of the current leg
CreateNextLegKeepsCurrent(cur, c, type, user, conf, reason) ==
    LET number == IF cur = NoLeg THEN 1 ELSE cur.leg_number + 1
    IN legs \cup {NewLeg(c, type, number, "connecting", user, conf)}

\* CallLeg.create_next_leg, cur being the leg get_active_leg returned (NoLeg: none)
CreateNextLeg(cur, c, type, user, conf, reason) ==
    LET r == IF reason # "none" THEN reason
             ELSE IF type = "human_agent" THEN "takeover" ELSE "transfer"
        number == IF cur = NoLeg THEN 1 ELSE cur.leg_number + 1
        kept == IF cur = NoLeg THEN legs ELSE (legs \ {cur}) \cup {EndLeg(cur, r)}
    IN kept \cup {NewLeg(c, type, number, "connecting", user, conf)}

\* CallLeg.create_initial_leg
CreateInitialLeg(c, type) == legs \cup {NewLeg(c, type, 1, "active", NoAgent, <<"none", 0>>)}

\* Conference.get_active_by_name
ActiveConferences(name) == {k \in conferences : k.name = name /\ k.status = "active"}

\* The unique index ix_conferences_conference_name refuses a second row of a name.
NameTaken(name) == \E k \in conferences : k.name = name

NewConference(name, type, owner) ==
    [id |-> Cardinality(conferences) + 1, name |-> name, type |-> type, owner |-> owner,
     status |-> "active"]

\* A caller of the model creates the first leg of call c and commits.
LegInitial(c, type) ==
    /\ budget["webhook"] > 0
    /\ budget' = [budget EXCEPT !["webhook"] = @ - 1]
    /\ legs' = CreateInitialLeg(c, type)
    /\ UNCHANGED <<now, down, redisVars, hasAddress, calls, conferences, participants, proc,
                   histVars>>

\* create_next_leg(call c, leg_type, transition_reason) is called; reason none: no
\* transition_reason is passed.
LegNextStart(p, c, type, reason) ==
    /\ Start(p, "webhook", [Idle EXCEPT !.op = "leg", !.pc = "l_next", !.id = nextOp,
                                        !.call = c, !.leg_type = type, !.reason = reason])
    /\ UNCHANGED <<now, down, redisVars, dbVars, decision, assignLog, availCount, dqLog,
                   enqOrder, latest, confLast, selLog>>

\* get_active_leg, end_leg of the leg found, the new leg, commit
LegNextCommit(p) ==
    /\ proc[p].pc = "l_next"
    /\ \E cur \in (IF ActiveLegs(proc[p].call) = {} THEN {NoLeg} ELSE ActiveLegs(proc[p].call)) :
           legs' = CreateNextLeg(cur, proc[p].call, proc[p].leg_type, NoAgent, <<"none", 0>>,
                                 proc[p].reason)
    /\ Finish(p)
    /\ UNCHANGED <<now, down, redisVars, hasAddress, calls, conferences, participants,
                   budget, histVars>>

\* ---------------------------------------------------- route_call_to_queue

NoCallRow == [status |-> "none", queue_id |-> "none", assigned_agent_id |-> NoAgent,
              conference_name |-> <<"none", 0>>, created_at |-> 0]

RouteStart(p, c, q, pr) ==
    /\ Start(p, "route", [Idle EXCEPT !.op = "route", !.pc = "r_upsert", !.id = nextOp,
                                      !.call = c, !.queue = q, !.priority = pr])
    /\ UNCHANGED <<now, down, redisVars, dbVars, decision, assignLog, availCount, dqLog,
                   enqOrder, latest, confLast, selLog>>

\* The priority route derives from the request: data.get('priority') or
\* global_data.get('priority', 5), then the urgency map when urgency is set and the
\* priority reads 5. 0 stands for a priority that is absent, None or 0, "" for an
\* urgency that is absent; urgency is lower-cased first.
RoutePriority(req) ==
    LET first == IF req.priority # 0 THEN req.priority
                 ELSE IF req.global_priority # 0 THEN req.global_priority
                 ELSE DefaultPriority
        urgency == IF req.urgency = "HIGH" THEN "high" ELSE req.urgency
    IN IF urgency # "" /\ first = DefaultPriority
       THEN (IF urgency = "high" THEN HighPriority
             ELSE IF urgency = "medium" THEN DefaultPriority
             ELSE IF urgency = "low" THEN LowPriority
             ELSE DefaultPriority)
       ELSE first

\* POST /<queue_id>/route with the priority and urgency fields of the request.
RouteRequest(p, c, q, req) ==
    /\ Start(p, "route", [Idle EXCEPT !.op = "route", !.pc = "r_upsert", !.id = nextOp,
                                      !.call = c, !.queue = q, !.req = req,
                                      !.priority = RoutePriority(req)])
    /\ UNCHANGED <<now, down, redisVars, dbVars, decision, assignLog, availCount, dqLog,
                   enqOrder, latest, confLast, selLog>>

\* Create or update the call record, db.session.commit(); seen is the status the
\* request found.
RUpsert(p) ==
    /\ proc[p].pc = "r_upsert"
    /\ down # "db"
    /\ LET c == proc[p].call
           old == calls[c]
           row == IF old.status = "none"
                  THEN [NoCallRow EXCEPT !.status = "waiting", !.created_at = now]
                  ELSE IF old.status \notin {"waiting", "assigned", "active", "ended"}
                       THEN [old EXCEPT !.status = "waiting"]
                       ELSE old
       IN calls' = [calls EXCEPT ![c] = [row EXCEPT !.queue_id = proc[p].queue]]
    /\ proc' = [proc EXCEPT ![p].pc = "r_enqueue", ![p].seen = calls[proc[p].call].status]
    /\ UNCHANGED <<now, down, redisVars, hasAddress, legs, conferences, participants,
                   budget, histVars>>

\* service.enqueue_call: redis.zadd(queue_key, {json.dumps(call_data): score})
REnqueue(p) ==
    /\ proc[p].pc = "r_enqueue"
    /\ down # "redis"
    /\ LET q == proc[p].queue
           e == [call_id |-> proc[p].call, priority |-> proc[p].priority, enqueued_at |-> now]
       IN /\ queue' = [queue EXCEPT ![q] = @ \cup {e}]
          /\ enqOrder' = [enqOrder EXCEPT ![q] = IF e \in queue[q] THEN @ ELSE Append(@, e)]
    /\ Goto(p, "r_pos")
    /\ UNCHANGED <<now, down, agentRec, statusSet, rr, dbVars, budget, decision, assignLog,
                   availCount, dqLog, latest, confLast, selLog, nextOp>>

\* position = self._get_queue_position(queue_id, call_id)
RPos(p) ==
    /\ proc[p].pc = "r_pos"
    /\ down # "redis"
    /\ proc' = [proc EXCEPT ![p].pc = "r_avail",
                            ![p].position = QueuePosition(queue[proc[p].queue], proc[p].call)]
    /\ UNCHANGED <<now, down, redisVars, dbVars, budget, histVars>>

\* The selection block of route, lines 256-315, run on its own, ends here.
SelectionOnly(rec) == rec.op = "select"

\* int(last_index_raw) if last_index_raw else -1
LastIndex(raw) == IF raw = NoCursor THEN -1 ELSE raw

\* available_agents = sorted(service.get_available_agents(queue_id)); redis.get(rr_key)
RAvail(p) ==
    /\ proc[p].pc = "r_avail"
    /\ down # "redis"
    /\ LET av == Sorted(statusSet["available"])
       IN proc' = [proc EXCEPT ![p] =
                      IF av = <<>>
                      THEN (IF SelectionOnly(proc[p]) THEN Idle ELSE [proc[p] EXCEPT !.pc = "r_hold"])
                      ELSE [proc[p] EXCEPT !.pc = "r_scan", !.avail = av, !.attempts = 0,
                                           !.last_index = LastIndex(rr[proc[p].queue])]]
    /\ UNCHANGED <<now, down, redisVars, dbVars, budget, histVars>>

\* next_index without the cursor: every scan starts at the head of the list
NextIndexFromHead(last, attempts, n) == attempts % n

\* next_index = (last_index + 1 + attempts) % num_agents
NextIndex(last, attempts, n) == (last + 1 + attempts) % n

\* attempts += 1; continue
NextAttempt(rec) ==
    IF rec.attempts + 1 < Len(rec.avail)
    THEN [rec EXCEPT !.attempts = @ + 1, !.pc = "r_scan"]
    ELSE IF SelectionOnly(rec) THEN Idle
    ELSE [rec EXCEPT !.attempts = @ + 1, !.pc = "r_hold"]

\* selected_user = user; break
AfterSelect(rec) == IF SelectionOnly(rec) THEN Idle ELSE [rec EXCEPT !.pc = "dq_read"]

\* One pass of the while loop: the user's address, then the agent's status record.
RScan(p) ==
    /\ proc[p].pc = "r_scan"
    /\ down = "none"
    /\ LET idx == NextIndex(proc[p].last_index, proc[p].attempts, Len(proc[p].avail))
           cand == proc[p].avail[idx + 1]
       IN IF ~hasAddress[cand]
          THEN /\ proc' = [proc EXCEPT ![p] = NextAttempt(proc[p])]
               /\ UNCHANGED <<rr, selLog>>
          ELSE IF agentRec[cand].status # "available"
          THEN /\ proc' = [proc EXCEPT ![p].pc = "r_heal", ![p].agent = cand]
               /\ UNCHANGED <<rr, selLog>>
          ELSE /\ proc' = [proc EXCEPT ![p] = AfterSelect([proc[p] EXCEPT !.agent = cand])]
               /\ rr' = [rr EXCEPT ![proc[p].queue] = idx]
               /\ selLog' = IF proc[p].op = "select"
                             THEN [selLog EXCEPT ![proc[p].queue] = Append(@, cand)]
                             ELSE selLog
    /\ UNCHANGED <<now, down, queue, agentRec, statusSet, dbVars, budget, decision,
                   assignLog, availCount, dqLog, enqOrder, latest, confLast, nextOp>>

\* redis_client.srem('agents:available', str(user.id))
RHeal(p) ==
    /\ proc[p].pc = "r_heal"
    /\ down # "redis"
    /\ statusSet' = [statusSet EXCEPT !["available"] = @ \ {proc[p].agent}]
    /\ proc' = [proc EXCEPT ![p] = NextAttempt([proc[p] EXCEPT !.agent = NoAgent])]
    /\ UNCHANGED <<now, down, queue, agentRec, rr, dbVars, budget, histVars>>

\* Conference.create_interaction_conference(call_id, queue_id, agent_user_id)
CreateInteractionConference(name, owner) ==
    IF ActiveConferences(name) # {} THEN conferences
    ELSE conferences \cup {NewConference(name, "interaction", owner)}

\* The call is assigned: call record, interaction conference, next leg, commit.
RAssign(p) ==
    /\ proc[p].pc = "r_assign"
    /\ down # "db"
    /\ LET c == proc[p].call
           a == proc[p].agent
           name == <<"interaction", c>>
       IN IF ActiveConferences(name) = {} /\ NameTaken(name)
          THEN \* IntegrityError: the except branch answers with the error SWML
               /\ decision' = [decision EXCEPT ![c] = ErrorDecision]
               /\ UNCHANGED <<calls, conferences, legs, assignLog>>
          ELSE /\ calls' = [calls EXCEPT ![c] = [@ EXCEPT !.status = "assigned",
                                                          !.assigned_agent_id = a,
                                                          !.conference_name = name]]
               /\ conferences' = CreateInteractionConference(name, a)
               /\ \E cur \in (IF ActiveLegs(c) = {} THEN {NoLeg} ELSE ActiveLegs(c)) :
                      legs' = CreateNextLeg(cur, c, "human_agent", a, name, "queue_routing")
               /\ assignLog' = assignLog \cup
                      {[call |-> c, agent |-> a, op |-> proc[p].id,
                        available |-> agentRec[a].status = "available",
                        conference_name |-> name]}
               /\ decision' = [decision EXCEPT ![c] = JoinDecision(a, name)]
    /\ Finish(p)
    /\ UNCHANGED <<now, down, redisVars, hasAddress, participants, budget, availCount,
                   dqLog, enqOrder, latest, confLast, selLog, nextOp>>

\* The no-agent answer without the wait check: always the hold loop.
RHoldWithoutFallback(p) ==
    /\ proc[p].pc = "r_hold"
    /\ down # "db"
    /\ decision' = [decision EXCEPT ![proc[p].call] =
                       HoldDecision(proc[p].position, proc[p].queue)]
    /\ Finish(p)
    /\ UNCHANGED <<now, down, redisVars, dbVars, budget, assignLog, availCount, dqLog,
                   enqOrder, latest, confLast, selLog, nextOp>>

\* No agent: AI fallback after MAX_WAIT_BEFORE_AI_OFFER seconds, else the hold loop.
RHold(p) ==
    /\ proc[p].pc = "r_hold"
    /\ down # "db"
    /\ LET c == proc[p].call
           wait_time_seconds == now - calls[c].created_at
       IN decision' = [decision EXCEPT ![c] =
                          IF wait_time_seconds > MAX_WAIT_BEFORE_AI_OFFER
                          THEN FallbackDecision(proc[p].queue)
                          ELSE HoldDecision(proc[p].position, proc[p].queue)]
    /\ Finish(p)
    /\ UNCHANGED <<now, down, redisVars, dbVars, budget, assignLog, availCount, dqLog,
                   enqOrder, latest, confLast, selLog, nextOp>>

\* except Exception: "technical difficulties", hangup, HTTP 500
Raise(p) ==
    /\ \/ proc[p].pc \in RedisLabels /\ down = "redis"
       \/ proc[p].pc \in DbLabels /\ down = "db"
    /\ decision' = IF proc[p].op = "route"
                   THEN [decision EXCEPT ![proc[p].call] = ErrorDecision] ELSE decision
    /\ Finish(p)
    /\ UNCHANGED <<now, down, redisVars, dbVars, budget, assignLog, availCount, dqLog,
                   enqOrder, latest, confLast, selLog, nextOp>>

\* ------------------------------------------------- agent-facing handlers

\* PUT /agent/status: set_agent_status, then the dequeue loop when available
StatusStart(p, a, s) ==
    /\ Start(p, "status", CallSetStatus([Idle EXCEPT !.op = "status", !.id = nextOp],
                                        a, s, NoCall, "u_deq"))
    /\ UNCHANGED <<now, down, redisVars, dbVars, decision, assignLog, availCount, dqLog,
                   enqOrder, latest, confLast, selLog>>

\* POST /transfer: QueueService.transfer_call(call_id, agent_id, target, type) with an
\* agent as target
TransferStart(p, c, from, to) ==
    /\ Start(p, "status", [Idle EXCEPT !.op = "transfer", !.pc = "t_read", !.id = nextOp,
                                       !.call = c, !.agent = from, !.to = to])
    /\ UNCHANGED <<now, down, redisVars, dbVars, decision, assignLog, availCount, dqLog,
                   enqOrder, latest, confLast, selLog>>

\* call_data = redis.get(call_key): the key enqueue_call wrote when the call was
\* queued; target_status = get_agent_status(to_target). On failure the result is
\* returned at once; on success set_agent_status(from_agent_id, "available"), then
\* set_agent_status(to_target, "busy", call_id), then call:<id> is stored again with
\* its transfer history.
TransferRead(p) ==
    /\ proc[p].pc = "t_read"
    /\ down # "redis"
    /\ LET c == proc[p].call
           stored == \E q \in Queues : \E i \in 1..Len(enqOrder[q]) : enqOrder[q][i].call_id = c
       IN IF ~stored \/ agentRec[proc[p].to].status # "available"
          THEN Finish(p)
          ELSE proc' = [proc EXCEPT ![p] =
                           CallSetStatus(proc[p], proc[p].agent, "available", NoCall, "t_to")]
    /\ UNCHANGED <<now, down, redisVars, dbVars, budget, histVars>>

\* GET /<queue_id>/next: set_agent_status(available), dequeue_call
NextStart(p, a, q) ==
    /\ Start(p, "next", CallSetStatus([Idle EXCEPT !.op = "next", !.id = nextOp, !.queue = q],
                                      a, "available", NoCall, "n_deq"))
    /\ UNCHANGED <<now, down, redisVars, dbVars, decision, assignLog, availCount, dqLog,
                   enqOrder, latest, confLast, selLog>>

\* call.status = 'in-progress'; db.session.commit()
NDb(p) ==
    /\ proc[p].pc = "n_db"
    /\ down # "db"
    /\ calls' = [calls EXCEPT ![proc[p].head.call_id] =
                    IF @.status = "none" THEN @ ELSE [@ EXCEPT !.status = "in-progress"]]
    /\ Finish(p)
    /\ UNCHANGED <<now, down, redisVars, hasAddress, legs, conferences, participants,
                   budget, histVars>>

\* socket take_call: callcenter_socketio.dequeue_call, zrange then zrem only
TakeStart(p, a, q) ==
    /\ Start(p, "take", [Idle EXCEPT !.op = "take", !.pc = "dq_read", !.id = nextOp,
                                     !.agent = a, !.queue = q])
    /\ UNCHANGED <<now, down, redisVars, dbVars, decision, assignLog, availCount, dqLog,
                   enqOrder, latest, confLast, selLog>>

\* socket set_agent_status: queue_service.set_agent_status(str(user_id), status).
\* The events of the agents' sockets are handled one after the other, beside the
\* HTTP requests.
SocketSetStatus(p, a, s) ==
    /\ \A o \in Procs : proc[o].op # "sock"
    /\ Start(p, "status", CallSetStatus([Idle EXCEPT !.op = "sock", !.id = nextOp],
                                        a, s, NoCall, "sock"))
    /\ UNCHANGED <<now, down, redisVars, dbVars, decision, assignLog, availCount, dqLog,
                   enqOrder, latest, confLast, selLog>>

\* Lines 256-315 of route on their own: pick the next agent of the queue's round.
SelectStart(p, q) ==
    /\ \A o \in Procs : proc[o].op = "idle"
    /\ Start(p, "select", [Idle EXCEPT !.op = "select", !.pc = "r_avail", !.id = nextOp,
                                       !.queue = q])
    /\ UNCHANGED <<now, down, redisVars, dbVars, decision, assignLog, availCount, dqLog,
                   enqOrder, latest, confLast, selLog>>

\* ------------------------------------------------------------ environment

Tick(d) ==
    /\ budget["tick"] > 0
    /\ now' = now + d
    /\ budget' = [budget EXCEPT !["tick"] = @ - 1]
    /\ UNCHANGED <<down, redisVars, dbVars, proc, histVars>>

\* The key agent:<a> reaches the end of its lifetime between two requests: Redis
\* deletes the record.
\* The sets agents:<status> have no lifetime and keep their members.
Expire(a) ==
    /\ budget["tick"] > 0
    /\ agentRec[a] # NoRecord
    /\ \A o \in Procs : proc[o].op = "idle"
    /\ now' = now + STATUS_TTL
    /\ agentRec' = [agentRec EXCEPT ![a] = NoRecord]
    /\ budget' = [budget EXCEPT !["tick"] = @ - 1]
    /\ UNCHANGED <<down, queue, statusSet, rr, dbVars, proc, histVars>>

\* QueueService.get_available_agents: the members of agents:available, whatever
\* the queue asked for.
GetAvailableAgents(q) == statusSet["available"]

\* QueueService.get_queue_metrics: the counts read from the status sets.
GetQueueMetrics(q) ==
    [queue_id |-> q,
     depth |-> Cardinality(queue[q]),
     available_agents |-> Cardinality(GetAvailableAgents(q)),
     busy_agents |-> Cardinality(statusSet["busy"])]

\* The gateway runs the hold answer of call c: it plays the hold message and 30
\* seconds of silence, then transfers the call to the route endpoint the answer names.
HoldLoop(p, c) ==
    /\ decision[c].kind = "hold"
    /\ \A o \in Procs : proc[o].call # c
    /\ proc[p].op = "idle"
    /\ \A o \in Procs : o < p => proc[o].op # "idle"
    /\ now + HoldSeconds - calls[c].created_at <= MaxHoldClock
    /\ now' = now + HoldSeconds
    /\ \E pr \in Priorities :
          proc' = [proc EXCEPT ![p] = [Idle EXCEPT !.op = "route", !.pc = "r_upsert",
                                                   !.id = nextOp, !.call = c,
                                                   !.queue = decision[c].requeue,
                                                   !.priority = pr]]
    /\ nextOp' = nextOp + 1
    /\ UNCHANGED <<down, redisVars, dbVars, budget, decision, assignLog, availCount, dqLog,
                   enqOrder, latest, confLast, selLog>>

\* POST /<queue_id>/hold-menu for call c; wellFormed: request.json parses the body.
\* The menu offers the AI agent of the queue, a callback, or the hold loop.
QueueHoldMenu(c, q, wellFormed) ==
    /\ budget["webhook"] > 0
    /\ budget' = [budget EXCEPT !["webhook"] = @ - 1]
    /\ decision' = [decision EXCEPT ![c] =
                       IF wellFormed
                       THEN [NoDecision EXCEPT !.kind = "menu", !.dest = AiAgent(q), !.requeue = q]
                       ELSE [NoDecision EXCEPT !.kind = "menu_error", !.requeue = q]]
    /\ UNCHANGED <<now, down, redisVars, dbVars, proc, assignLog, availCount, dqLog,
                   enqOrder, latest, confLast, selLog, nextOp>>

\* POST /<queue_id>/hold-loop for call c: get_queue_status reads the queue; the
\* status has no key length, so the position announced is max(0, 1). The except
\* branch answers when the body does not parse or Redis is unreachable.
QueueHoldLoop(c, q, wellFormed) ==
    /\ budget["webhook"] > 0
    /\ budget' = [budget EXCEPT !["webhook"] = @ - 1]
    /\ decision' = [decision EXCEPT ![c] =
                       IF wellFormed /\ down # "redis"
                       THEN [NoDecision EXCEPT !.kind = "loop", !.position = 1, !.requeue = q]
                       ELSE [NoDecision EXCEPT !.kind = "loop_error", !.requeue = q]]
    /\ UNCHANGED <<now, down, redisVars, dbVars, proc, assignLog, availCount, dqLog,
                   enqOrder, latest, confLast, selLog, nextOp>>

\* The clock advances by minutes only between requests: a request takes milliseconds.
TickBetweenRequests(d) ==
    /\ \A p \in Procs : proc[p].op = "idle"
    /\ Tick(d)

Fail(dep) ==
    /\ down = "none"
    /\ budget["fault"] > 0
    /\ down' = dep
    /\ budget' = [budget EXCEPT !["fault"] = @ - 1]
    /\ UNCHANGED <<now, redisVars, dbVars, proc, histVars>>

Recover ==
    /\ down # "none"
    /\ down' = "none"
    /\ UNCHANGED <<now, redisVars, dbVars, proc, budget, histVars>>

\* ---------------------------------------------------------------- webhooks

\* Call.update_status
UpdateStatus(row, s) == [row EXCEPT !.status = s]

\* POST /api/swml/initial-call
InitialCall(c) ==
    /\ budget["webhook"] > 0
    /\ down # "db"
    /\ budget' = [budget EXCEPT !["webhook"] = @ - 1]
    /\ calls' = [calls EXCEPT ![c] =
                    UpdateStatus(IF @.status = "none"
                                 THEN [NoCallRow EXCEPT !.status = "initiated", !.created_at = now]
                                 ELSE @, "ai_active")]
    /\ legs' = IF ActiveLegs(c) = {} THEN CreateInitialLeg(c, "ai_agent") ELSE legs
    /\ UNCHANGED <<now, down, redisVars, hasAddress, conferences, participants, proc, histVars>>

\* ConferenceParticipant.get_active_by_call_sid
ActiveParticipants(c) == {x \in participants : x.call_sid = c /\ x.status = "active"}

\* Conference.get_agent_participant
AgentParticipants(k) ==
    {x \in participants : x.conf = k.id /\ x.type = "agent" /\ x.status = "active"}

ParticipantType(k) ==
    IF k.type = "agent" /\ k.owner # NoAgent /\ AgentParticipants(k) = {}
    THEN "agent" ELSE "customer"

LegsOf(c, name, st) == {l \in legs : l.call = c /\ l.conf = name /\ l.status = st}

\* conference_status_callback, event_type join
Join(c, name) ==
    /\ budget["webhook"] > 0
    /\ down # "db"
    /\ ActiveConferences(name) # {}
    /\ ActiveParticipants(c) = {}
    /\ budget' = [budget EXCEPT !["webhook"] = @ - 1]
    /\ LET k == CHOOSE x \in ActiveConferences(name) : TRUE
           t == ParticipantType(k)
           known == calls[c].status # "none"
       IN /\ participants' = participants \cup
                 {[id |-> Cardinality(participants) + 1, conf |-> k.id, call_sid |-> c,
                   type |-> t, status |-> "active"]}
          /\ IF t = "customer" /\ known
             THEN /\ \/ /\ LegsOf(c, name, "connecting") = {}
                        /\ legs' = legs
                     \/ \E l \in LegsOf(c, name, "connecting") :
                            legs' = (legs \ {l}) \cup {[l EXCEPT !.status = "active"]}
                  /\ calls' = [calls EXCEPT ![c] =
                                  IF @.status \in {"connecting", "queued", "ringing"}
                                  THEN [@ EXCEPT !.status = "active"] ELSE @]
             ELSE UNCHANGED <<legs, calls>>
    /\ UNCHANGED <<now, down, redisVars, hasAddress, conferences, proc, histVars>>

\* The join event of call c for conference name arrives at the status callback.
JoinStart(p, c, name) ==
    /\ Start(p, "webhook", [Idle EXCEPT !.op = "join", !.pc = "j_read", !.id = nextOp,
                                        !.call = c, !.conf = name])
    /\ UNCHANGED <<now, down, redisVars, dbVars, decision, assignLog, availCount, dqLog,
                   enqOrder, latest, confLast, selLog>>

\* conference = Conference.get_active_by_name(conference_name);
\* existing = ConferenceParticipant.get_active_by_call_sid(participant_call_sid);
\* agent_participant = conference.get_agent_participant()
JoinRead(p) ==
    /\ proc[p].pc = "j_read"
    /\ down # "db"
    /\ IF ActiveConferences(proc[p].conf) = {} \/ ActiveParticipants(proc[p].call) # {}
       THEN Finish(p)
       ELSE \E k \in ActiveConferences(proc[p].conf) :
                proc' = [proc EXCEPT ![p].pc = "j_insert", ![p].seen = ParticipantType(k)]
    /\ UNCHANGED <<now, down, redisVars, dbVars, budget, histVars>>

\* if not existing: db.session.add(participant); db.session.commit(); then the leg
\* and the call of a customer, db.session.commit(). conference is the row JoinRead
\* loaded, whatever its status has become, and the type the one JoinRead worked out.
JoinInsert(p) ==
    /\ proc[p].pc = "j_insert"
    /\ down # "db"
    /\ LET c == proc[p].call
           name == proc[p].conf
       IN \E k \in {x \in conferences : x.name = name} :
              LET t == proc[p].seen
              IN /\ participants' = participants \cup
                        {[id |-> Cardinality(participants) + 1, conf |-> k.id, call_sid |-> c,
                          type |-> t, status |-> "active"]}
                 /\ IF t = "customer" /\ calls[c].status # "none"
                    THEN /\ \/ /\ LegsOf(c, name, "connecting") = {}
                               /\ legs' = legs
                            \/ \E l \in LegsOf(c, name, "connecting") :
                                   legs' = (legs \ {l}) \cup {[l EXCEPT !.status = "active"]}
                         /\ calls' = [calls EXCEPT ![c] =
                                         IF @.status \in {"connecting", "queued", "ringing"}
                                         THEN [@ EXCEPT !.status = "active"] ELSE @]
                    ELSE UNCHANGED <<legs, calls>>
    /\ Finish(p)
    /\ UNCHANGED <<now, down, redisVars, hasAddress, conferences, budget, histVars>>

\* leave without its status assignment
ParticipantStays(x) == x

\* ConferenceParticipant.leave
ParticipantLeave(x) == [x EXCEPT !.status = "left"]

\* conference_status_callback, event_type leave
Leave(c, name) ==
    /\ budget["webhook"] > 0
    /\ down # "db"
    /\ ActiveConferences(name) # {}
    /\ ActiveParticipants(c) # {}
    /\ budget' = [budget EXCEPT !["webhook"] = @ - 1]
    /\ \E x \in ActiveParticipants(c) :
          /\ participants' = (participants \ {x}) \cup {ParticipantLeave(x)}
          /\ IF x.type = "customer" /\ calls[c].status # "none"
             THEN /\ \/ /\ LegsOf(c, name, "active") = {}
                        /\ legs' = legs
                     \/ \E l \in LegsOf(c, name, "active") :
                            legs' = (legs \ {l}) \cup {EndLeg(l, "customer_left")}
                  /\ calls' = [calls EXCEPT ![c] =
                                  IF @.status \notin {"completed", "ended"}
                                  THEN [@ EXCEPT !.status = "completed"] ELSE @]
             ELSE UNCHANGED <<legs, calls>>
    /\ UNCHANGED <<now, down, redisVars, hasAddress, conferences, proc, histVars>>

\* POST /<conference_name>/status with event_type leave, served as a request of its
\* own: the gateway sends it for a call that is in the conference.
LeaveStart(p, c, name) ==
    /\ \E x \in participants : x.call_sid = c /\ x.status \in {"active", "muted"}
    /\ \A o \in Procs : ~(proc[o].op = "leave" /\ proc[o].call = c)
    /\ Start(p, "webhook", [Idle EXCEPT !.op = "leave", !.pc = "lv_commit", !.id = nextOp,
                                        !.call = c, !.conf = name])
    /\ UNCHANGED <<now, down, redisVars, dbVars, decision, assignLog, availCount, dqLog,
                   enqOrder, latest, confLast, selLog>>

\* participant = ConferenceParticipant.get_active_by_call_sid(participant_call_sid);
\* if participant: participant.leave() ... ; nothing when there is none
LeaveCommit(p) ==
    /\ proc[p].pc = "lv_commit"
    /\ down # "db"
    /\ LET c == proc[p].call
           name == proc[p].conf
       IN IF ActiveConferences(name) = {} \/ ActiveParticipants(c) = {}
          THEN UNCHANGED <<participants, legs, calls>>
          ELSE \E x \in ActiveParticipants(c) :
                  /\ participants' = (participants \ {x}) \cup {ParticipantLeave(x)}
                  /\ IF x.type = "customer" /\ calls[c].status # "none"
                     THEN /\ \/ /\ LegsOf(c, name, "active") = {}
                                /\ legs' = legs
                             \/ \E l \in LegsOf(c, name, "active") :
                                    legs' = (legs \ {l}) \cup {EndLeg(l, "customer_left")}
                          /\ calls' = [calls EXCEPT ![c] =
                                          IF @.status \notin {"completed", "ended"}
                                          THEN [@ EXCEPT !.status = "completed"] ELSE @]
                     ELSE UNCHANGED <<legs, calls>>
    /\ Finish(p)
    /\ UNCHANGED <<now, down, redisVars, hasAddress, conferences, budget, histVars>>

\* POST /<conference_name>/mute/<participant_call_sid>: 404 when the call has no
\* active participant; ConferenceParticipant.mute sets the status muted when muted
\* is true and leaves an active status alone when it is false.
Mute(c, muted) ==
    /\ budget["conf"] > 0
    /\ down # "db"
    /\ budget' = [budget EXCEPT !["conf"] = @ - 1]
    /\ IF ActiveParticipants(c) = {}
       THEN participants' = participants
       ELSE \E x \in ActiveParticipants(c) :
               participants' = (participants \ {x}) \cup
                   {[x EXCEPT !.status = IF muted THEN "muted" ELSE @]}
    /\ UNCHANGED <<now, down, redisVars, hasAddress, calls, legs, conferences, proc,
                   histVars>>

\* POST /<conference_name>/move-participant
MoveStart(p, c, name, target) ==
    /\ Start(p, "conf", [Idle EXCEPT !.op = "move", !.pc = "m_read", !.id = nextOp,
                                     !.call = c, !.conf = name, !.target = target])
    /\ UNCHANGED <<now, down, redisVars, dbVars, decision, assignLog, availCount, dqLog,
                   enqOrder, latest, confLast, selLog>>

\* Source and target conference and the participant are looked up, 404 when one is
\* missing; then the gateway is told to remove the call from the source and to add
\* it to the target.
MoveRead(p) ==
    /\ proc[p].pc = "m_read"
    /\ down # "db"
    /\ IF \/ ActiveConferences(proc[p].conf) = {}
          \/ ActiveConferences(proc[p].target) = {}
          \/ ActiveParticipants(proc[p].call) = {}
       THEN Finish(p)
       ELSE \E x \in ActiveParticipants(proc[p].call) :
                proc' = [proc EXCEPT ![p].pc = "m_commit", ![p].part = x.id]
    /\ UNCHANGED <<now, down, redisVars, dbVars, budget, histVars>>

\* participant.leave(); db.session.add(new_participant); db.session.commit()
MoveCommit(p) ==
    /\ proc[p].pc = "m_commit"
    /\ down # "db"
    /\ \E k \in {x \in conferences : x.name = proc[p].target} :
       \E old \in {x \in participants : x.id = proc[p].part} :
           participants' =
               {IF x.id = old.id THEN ParticipantLeave(x) ELSE x : x \in participants} \cup
               {[id |-> Cardinality(participants) + 1, conf |-> k.id,
                 call_sid |-> proc[p].call, type |-> old.type, status |-> "active"]}
    /\ Finish(p)
    /\ UNCHANGED <<now, down, redisVars, hasAddress, calls, legs, conferences, budget,
                   histVars>>

\* The call states the gateway reports to /api/webhooks/call-status.
CallStates == {"ringing", "answered", "ended"}

\* POST /api/webhooks/call-status: call.update_status(mapped_status), commit
CallStatus(c, s) ==
    /\ budget["webhook"] > 0
    /\ down # "db"
    /\ calls[c].status # "none"
    /\ budget' = [budget EXCEPT !["webhook"] = @ - 1]
    /\ calls' = [calls EXCEPT ![c] = UpdateStatus(@, s)]
    /\ UNCHANGED <<now, down, redisVars, hasAddress, legs, conferences, participants, proc,
                   histVars>>

\* POST /api/calls/<call_id>/end: call.update_status('completed'), commit
EndCall(c) ==
    /\ budget["webhook"] > 0
    /\ down # "db"
    /\ calls[c].status # "none"
    /\ budget' = [budget EXCEPT !["webhook"] = @ - 1]
    /\ calls' = [calls EXCEPT ![c] = UpdateStatus(@, "completed")]
    /\ UNCHANGED <<now, down, redisVars, hasAddress, legs, conferences, participants, proc,
                   histVars>>

\* POST /<conference_name>/agent-call-state with call_state ended: the agent hung
\* up or did not answer; the handler logs the end reason and changes nothing.
AgentCallEnded(c) ==
    /\ budget["webhook"] > 0
    /\ calls[c].status = "assigned"
    /\ budget' = [budget EXCEPT !["webhook"] = @ - 1]
    /\ UNCHANGED <<now, down, redisVars, dbVars, proc, histVars>>

\* ----------------------------------------------------- conference handlers

AgentConference(a) == <<"agent-conf", a>>
InteractionConference(c) == <<"interaction", c>>
ConferenceNames == {AgentConference(a) : a \in Agents} \cup
                   {InteractionConference(c) : c \in Calls}

\* GET /agent/<agent_id>/resource-address: Conference.get_or_create_agent_conference
GocStart(p, a) ==
    /\ Start(p, "conf", [Idle EXCEPT !.op = "goc", !.pc = "goc_read", !.id = nextOp,
                                     !.agent = a, !.conf = AgentConference(a)])
    /\ UNCHANGED <<now, down, redisVars, dbVars, decision, assignLog, availCount, dqLog,
                   enqOrder, latest, confLast, selLog>>

\* conference = cls.get_active_by_name(conference_name)
GocRead(p) ==
    /\ proc[p].pc = "goc_read"
    /\ IF ActiveConferences(proc[p].conf) # {}
       THEN /\ Finish(p)
            /\ confLast' = [confLast EXCEPT ![proc[p].conf] = "goc"]
       ELSE /\ Goto(p, "goc_insert")
            /\ UNCHANGED confLast
    /\ UNCHANGED <<now, down, redisVars, dbVars, budget, decision, assignLog, availCount,
                   dqLog, enqOrder, latest, selLog, nextOp>>

\* get-or-create that also registers the owner as a participant of the new room
GocInsertWithOwner(p) ==
    /\ proc[p].pc = "goc_insert"
    /\ conferences' = IF NameTaken(proc[p].conf) THEN conferences
                      ELSE conferences \cup {NewConference(proc[p].conf, "agent", proc[p].agent)}
    /\ participants' = participants \cup
           {[id |-> Cardinality(participants) + 1, conf |-> Cardinality(conferences) + 1,
             call_sid |-> NoCall, type |-> "agent", status |-> "active"]}
    /\ confLast' = [confLast EXCEPT ![proc[p].conf] = "goc"]
    /\ Finish(p)
    /\ UNCHANGED <<now, down, redisVars, hasAddress, calls, legs, budget,
                   decision, assignLog, availCount, dqLog, enqOrder, latest, selLog, nextOp>>

\* db.session.add(conference); db.session.flush(); db.session.commit()
GocInsert(p) ==
    /\ proc[p].pc = "goc_insert"
    /\ conferences' = IF NameTaken(proc[p].conf) THEN conferences
                      ELSE conferences \cup {NewConference(proc[p].conf, "agent", proc[p].agent)}
    /\ confLast' = [confLast EXCEPT ![proc[p].conf] = "goc"]
    /\ Finish(p)
    /\ UNCHANGED <<now, down, redisVars, hasAddress, calls, legs, participants, budget,
                   decision, assignLog, availCount, dqLog, enqOrder, latest, selLog, nextOp>>

\* POST /<conference_name>/end
EndStart(p, name) ==
    /\ Start(p, "conf", [Idle EXCEPT !.op = "end", !.pc = "end_read", !.id = nextOp,
                                     !.conf = name])
    /\ UNCHANGED <<now, down, redisVars, dbVars, decision, assignLog, availCount, dqLog,
                   enqOrder, latest, confLast, selLog>>

\* conference = Conference.get_active_by_name(conference_name); 404 when none
EndRead(p) ==
    /\ proc[p].pc = "end_read"
    /\ IF ActiveConferences(proc[p].conf) = {}
       THEN /\ Finish(p)
            /\ confLast' = [confLast EXCEPT ![proc[p].conf] = "end"]
       ELSE /\ Goto(p, "end_commit")
            /\ UNCHANGED confLast
    /\ UNCHANGED <<now, down, redisVars, dbVars, budget, decision, assignLog, availCount,
                   dqLog, enqOrder, latest, selLog, nextOp>>

\* Conference.end_conference; db.session.commit()
EndCommit(p) ==
    /\ proc[p].pc = "end_commit"
    /\ LET ended == {k.id : k \in {x \in conferences : x.name = proc[p].conf}}
       IN /\ conferences' = {IF k.id \in ended THEN [k EXCEPT !.status = "ended"] ELSE k :
                               k \in conferences}
          /\ participants' = {IF x.conf \in ended /\ x.status = "active"
                              THEN ParticipantLeave(x) ELSE x : x \in participants}
    /\ confLast' = [confLast EXCEPT ![proc[p].conf] = "end"]
    /\ Finish(p)
    /\ UNCHANGED <<now, down, redisVars, hasAddress, calls, legs, budget, decision,
                   assignLog, availCount, dqLog, enqOrder, latest, selLog, nextOp>>

\* ------------------------------------------------------------------- Init

NoBudget == [ops |-> MaxOps, route |-> 0, status |-> 0, next |-> 0, take |-> 0, select |-> 0,
             tick |-> 0, fault |-> 0, webhook |-> 0, conf |-> 0]

\* Empty queues and tables but for the conferences rooms. The agents of members
\* are in agents:available; those of stale among them have a record that no
\* longer reads available.
InitStoresWith(pool, members, stale, rooms) ==
    /\ now = 0
    /\ down = "none"
    /\ queue = [q \in Queues |-> {}]
    /\ agentRec = [a \in pool |-> IF a \in stale
                                  THEN [status |-> "busy", current_call_id |-> NoCall]
                                  ELSE IF a \in members
                                  THEN [status |-> "available", current_call_id |-> NoCall]
                                  ELSE NoRecord]
    /\ statusSet = [s \in SocketStatuses |-> IF s = "available" THEN members ELSE {}]
    /\ calls = [c \in Calls |-> NoCallRow]
    /\ legs = {}
    /\ conferences = rooms
    /\ participants = {}
    /\ proc = [p \in Procs |-> Idle]
    /\ decision = [c \in Calls |-> NoDecision]
    /\ assignLog = {}
    /\ availCount = [a \in pool |-> IF a \in members THEN 1 ELSE 0]
    /\ dqLog = {}
    /\ enqOrder = [q \in Queues |-> <<>>]
    /\ latest = [a \in pool |-> [id |-> 0,
                                 status |-> IF a \in stale THEN "busy"
                                            ELSE IF a \in members THEN "available" ELSE "none",
                                 done |-> TRUE]]
    /\ confLast = [n \in ConferenceNames |-> "none"]
    /\ selLog = [q \in Queues |-> <<>>]
    /\ nextOp = 1

InitStores(pool, members, stale) == InitStoresWith(pool, members, stale, {})

\* Every agent has an address, or all but the last one.
Addresses == {[a \in Agents |-> TRUE], [a \in Agents |-> a # NumAgents]}

InitOf(signedIn, addresses, b) ==
    /\ InitStores(Agents, signedIn, {})
    /\ rr = [q \in Queues |-> NoCursor]
    /\ hasAddress = addresses
    /\ budget = b

InitWith(b) == \E signedIn \in SUBSET Agents, addresses \in Addresses : InitOf(signedIn, addresses, b)

Init == InitWith([NoBudget EXCEPT !.route = MaxRoutes, !.take = MaxAgentOps])

InitClock == InitWith([NoBudget EXCEPT !.route = MaxRoutes, !.tick = MaxTicks])

InitAgent == InitWith([NoBudget EXCEPT !.route = MaxRoutes, !.status = MaxStatusOps,
                                       !.next = MaxAgentOps])

InitFault == InitWith([NoBudget EXCEPT !.route = MaxRoutes, !.fault = MaxFaults])

\* One agent is signed in and every agent has an address.
InitLegs == InitOf({1}, [a \in Agents |-> TRUE],
                   [NoBudget EXCEPT !.route = MaxRoutes, !.webhook = MaxWebhooks])

\* One agent is signed in; calls may have reached the AI receptionist before route.
InitWait == InitOf({1}, [a \in Agents |-> TRUE],
                   [NoBudget EXCEPT !.route = MaxRoutes, !.webhook = MaxEvents,
                                    !.tick = MaxTicks])

\* One agent is signed in; one webhook or end request arrives beside the routes.
InitEnd == InitOf({1}, [a \in Agents |-> TRUE],
                  [NoBudget EXCEPT !.route = MaxRoutes, !.webhook = MaxEvents])

\* One agent is signed in; the agent's call may end unanswered; the clock advances.
InitNoJoin == InitOf({1}, [a \in Agents |-> TRUE],
                     [NoBudget EXCEPT !.route = MaxRoutes, !.webhook = MaxEvents,
                                      !.tick = MaxTicks])

\* Any membership of the available set, stale members included; one call arrives.
InitHold ==
    /\ \E members \in SUBSET Agents :
          \E stale \in SUBSET members : InitStores(Agents, members, stale)
    /\ rr = [q \in Queues |-> NoCursor]
    /\ hasAddress = [a \in Agents |-> TRUE]
    /\ budget = [NoBudget EXCEPT !.route = MaxArrivals]

\* Any sign-in state; only socket status events arrive.
InitSocket == InitWith([NoBudget EXCEPT !.ops = MaxSocketOps, !.status = MaxSocketOps])

\* Both agents are signed in and the conference of each exists; join and leave
\* events, move and end requests arrive.
InitPart ==
    /\ InitStoresWith(Agents, Agents, {},
                      {[id |-> a, name |-> <<"agent-conf", a>>, type |-> "agent", owner |-> a,
                        status |-> "active"] : a \in Agents})
    /\ rr = [q \in Queues |-> NoCursor]
    /\ hasAddress = [a \in Agents |-> TRUE]
    /\ budget = [NoBudget EXCEPT !.ops = MaxPartOps, !.webhook = MaxPartOps, !.conf = 1]

\* One call arrives at route while conferences are fetched, joined, muted and left.
InitRoom ==
    /\ \E members \in SUBSET Agents :
          \E stale \in SUBSET members : InitStores(Agents, members, stale)
    /\ rr = [q \in Queues |-> NoCursor]
    /\ hasAddress = [a \in Agents |-> TRUE]
    /\ budget = [NoBudget EXCEPT !.ops = MaxRoomOps, !.route = MaxArrivals,
                                 !.webhook = MaxWebhooks, !.conf = MaxConfOps - 1]

\* Any membership of the available set, stale members included; one call arrives
\* at route, one request at the hold endpoints, and a dependency may fail.
InitAnswer ==
    /\ \E members \in SUBSET Agents :
          \E stale \in SUBSET members : InitStores(Agents, members, stale)
    /\ rr = [q \in Queues |-> NoCursor]
    /\ hasAddress = [a \in Agents |-> TRUE]
    /\ budget = [NoBudget EXCEPT !.route = MaxArrivals, !.webhook = MaxEvents,
                                 !.fault = MaxFaults]

\* Only the leg operations run, the clock advancing between them.
InitLegApi == InitOf({}, [a \in Agents |-> TRUE],
                     [NoBudget EXCEPT !.ops = MaxLegOps, !.webhook = MaxLegOps,
                                      !.tick = MaxTicks])

\* Any membership of the available set, stale members included; one call arrives
\* while an agent changes its status.
InitStale ==
    /\ \E members \in SUBSET Agents :
          \E stale \in SUBSET members : InitStores(Agents, members, stale)
    /\ rr = [q \in Queues |-> NoCursor]
    /\ hasAddress = [a \in Agents |-> TRUE]
    /\ budget = [NoBudget EXCEPT !.route = MaxArrivals, !.status = MaxStatusOps]

InitConf == InitWith([NoBudget EXCEPT !.ops = MaxConfOps, !.conf = MaxConfOps])

\* The selector on its own: any membership and cursor that earlier requests can
\* have left behind. A member is stale when its record has expired or was
\* overwritten while the set kept it.
SelectAgents == 1..(NumAgents + 1)
Cursors == {NoCursor} \cup (0..NumAgents)

InitRR ==
    /\ \E members \in (SUBSET SelectAgents) \ {{}} :
          \E stale \in SUBSET members : InitStores(SelectAgents, members, stale)
    /\ \E cursor \in Cursors : rr = [q \in Queues |-> IF q = QueueOrder[1] THEN cursor ELSE NoCursor]
    /\ hasAddress \in [SelectAgents -> BOOLEAN]
    /\ budget = [NoBudget EXCEPT !.ops = MaxSelections, !.select = MaxSelections]

\* ------------------------------------------------------------------- Next

RouteSteps ==
    \/ \E p \in Procs, c \in Calls, q \in Queues, pr \in Priorities : RouteStart(p, c, q, pr)
    \/ \E p \in Procs : RUpsert(p)
    \/ \E p \in Procs : REnqueue(p)
    \/ \E p \in Procs : RPos(p)
    \/ \E p \in Procs : RAvail(p)
    \/ \E p \in Procs : RScan(p)
    \/ \E p \in Procs : RHeal(p)
    \/ \E p \in Procs : DqRead(p)
    \/ \E p \in Procs : DqRem(p)
    \/ \E p \in Procs : SasSetex(p)
    \/ \E p \in Procs : SasSadd(p)
    \/ \E p \in Procs : SasSrem(p)
    \/ \E p \in Procs : RAssign(p)
    \/ \E p \in Procs : RHold(p)

AgentSteps ==
    \/ \E p \in Procs, a \in Agents, s \in StatusSets : StatusStart(p, a, s)
    \/ \E p \in Procs, a \in Agents, q \in Queues : NextStart(p, a, q)
    \/ \E p \in Procs : NDb(p)

FaultSteps ==
    \/ \E dep \in {"redis", "db"} : Fail(dep)
    \/ Recover
    \/ \E p \in Procs : Raise(p)

Next == RouteSteps \/ (\E p \in Procs, a \in Agents, q \in Queues : TakeStart(p, a, q))

Spec == Init /\ [][Next]_vars

NextClock == RouteSteps \/ (\E d \in TickSteps : Tick(d))

SpecClock == InitClock /\ [][NextClock]_vars

NextAgent == RouteSteps \/ AgentSteps

SpecAgent == InitAgent /\ [][NextAgent]_vars

NextFault == RouteSteps \/ FaultSteps

SpecFault == InitFault /\ [][NextFault]_vars

WebhookSteps ==
    \/ \E c \in Calls : InitialCall(c)
    \/ \E c \in Calls : Join(c, InteractionConference(c))
    \/ \E c \in Calls : Leave(c, InteractionConference(c))

NextLegs == RouteSteps \/ WebhookSteps

SpecLegs == InitLegs /\ [][NextLegs]_vars

NextWait ==
    \/ RouteSteps
    \/ \E c \in Calls : InitialCall(c)
    \/ \E d \in TickSteps : TickBetweenRequests(d)

SpecWait == InitWait /\ [][NextWait]_vars

EndSteps ==
    \/ \E c \in Calls, s \in CallStates : CallStatus(c, s)
    \/ \E c \in Calls : EndCall(c)

NextEnd == RouteSteps \/ (\E c \in Calls : InitialCall(c)) \/ EndSteps

SpecEnd == InitEnd /\ [][NextEnd]_vars

NextNoJoin ==
    \/ RouteSteps
    \/ \E c \in Calls : AgentCallEnded(c)
    \/ \E d \in TickSteps : TickBetweenRequests(d)

\* No agent answers. The server goes on serving requests and the clock goes on.
SpecNoJoin == InitNoJoin /\ [][NextNoJoin]_vars /\ WF_vars(NextNoJoin)

NextHold == RouteSteps \/ (\E p \in Procs, c \in Calls : HoldLoop(p, c))

\* The gateway goes on running the answers it gets and the server goes on serving.
SpecHold == InitHold /\ [][NextHold]_vars /\ WF_vars(NextHold)

NextSocket ==
    \/ \E p \in Procs, a \in Agents, s \in SocketStatuses : SocketSetStatus(p, a, s)
    \/ \E p \in Procs : SasSetex(p)
    \/ \E p \in Procs : SasSadd(p)
    \/ \E p \in Procs : SasSrem(p)

SpecSocket == InitSocket /\ [][NextSocket]_vars

NextPart ==
    \/ \E p \in Procs, c \in Calls, a \in Agents : JoinStart(p, c, AgentConference(a))
    \/ \E p \in Procs : JoinRead(p)
    \/ \E p \in Procs : JoinInsert(p)
    \/ \E c \in Calls, a \in Agents : Leave(c, AgentConference(a))
    \/ \E p \in Procs, c \in Calls, a \in Agents :
           \E b \in Agents \ {a} : MoveStart(p, c, AgentConference(a), AgentConference(b))
    \/ \E p \in Procs : MoveRead(p)
    \/ \E p \in Procs : MoveCommit(p)
    \/ \E p \in Procs, a \in Agents : EndStart(p, AgentConference(a))
    \/ \E p \in Procs : EndRead(p)
    \/ \E p \in Procs : EndCommit(p)

SpecPart == InitPart /\ [][NextPart]_vars

NextAnswer ==
    \/ RouteSteps
    \/ FaultSteps
    \/ \E c \in Calls, q \in Queues, wellFormed \in BOOLEAN : QueueHoldMenu(c, q, wellFormed)
    \/ \E c \in Calls, q \in Queues, wellFormed \in BOOLEAN : QueueHoldLoop(c, q, wellFormed)

SpecAnswer == InitAnswer /\ [][NextAnswer]_vars

NextPriority ==
    \/ RouteSteps
    \/ \E p \in Procs, c \in Calls, q \in Queues :
       \E req \in [priority : {0, HighPriority, DefaultPriority, LowPriority},
                   global_priority : {0, HighPriority, DefaultPriority, LowPriority},
                   urgency : {"", "high", "HIGH", "medium", "low", "critical"}] :
           RouteRequest(p, c, q, req)

SpecPriority == InitHold /\ [][NextPriority]_vars

NextLegApi ==
    \/ \E c \in Calls, type \in {"ai_agent", "human_agent"} : LegInitial(c, type)
    \/ \E p \in Procs, c \in Calls, type \in {"ai_agent", "human_agent"},
          reason \in {"none", "queue_routing"} : LegNextStart(p, c, type, reason)
    \/ \E p \in Procs : LegNextCommit(p)
    \/ \E d \in TickSteps : Tick(d)

SpecLegApi == InitLegApi /\ [][NextLegApi]_vars

NextTransfer ==
    \/ RouteSteps
    \/ \E p \in Procs, c \in Calls, from \in Agents :
           \E to \in Agents \ {from} : TransferStart(p, c, from, to)
    \/ \E p \in Procs : TransferRead(p)

SpecTransfer == InitAgent /\ [][NextTransfer]_vars

NextRoom ==
    \/ RouteSteps
    \/ \E p \in Procs, a \in Agents : GocStart(p, a)
    \/ \E p \in Procs : GocRead(p)
    \/ \E p \in Procs : GocInsert(p)
    \/ \E c \in Calls : Join(c, InteractionConference(c))
    \/ \E c \in Calls, a \in Agents : Join(c, AgentConference(a))
    \/ \E c \in Calls, muted \in BOOLEAN : Mute(c, muted)
    \/ \E p \in Procs, c \in Calls : LeaveStart(p, c, InteractionConference(c))
    \/ \E p \in Procs : LeaveCommit(p)

SpecRoom == InitRoom /\ [][NextRoom]_vars

\* The hold answer's transfer re-invokes route between two other requests.
HoldLoopBetweenRequests(p, c) ==
    /\ \A o \in Procs : proc[o].op = "idle"
    /\ HoldLoop(p, c)

NextHeal ==
    \/ RouteSteps
    \/ \E p \in Procs, a \in Agents : SocketSetStatus(p, a, "available")
    \/ \E p \in Procs, c \in Calls : HoldLoopBetweenRequests(p, c)

SpecHeal == InitStale /\ [][NextHeal]_vars


NextExpire == RouteSteps \/ (\E a \in Agents : Expire(a))

SpecExpire == InitClock /\ [][NextExpire]_vars

NextConf ==
    \/ \E p \in Procs, a \in Agents : GocStart(p, a)
    \/ \E p \in Procs : GocRead(p)
    \/ \E p \in Procs : GocInsert(p)
    \/ \E p \in Procs, a \in Agents : EndStart(p, AgentConference(a))
    \/ \E p \in Procs : EndRead(p)
    \/ \E p \in Procs : EndCommit(p)

SpecConf == InitConf /\ [][NextConf]_vars

NextRR ==
    \/ \E p \in Procs : SelectStart(p, QueueOrder[1])
    \/ \E p \in Procs : RAvail(p)
    \/ \E p \in Procs : RScan(p)
    \/ \E p \in Procs : RHeal(p)

SpecRR == InitRR /\ [][NextRR]_vars

\* ----------------------------------------------------------------- claims

CallsAssignedTo(a) == {r.call : r \in {x \in assignLog : x.agent = a}}

\* C1: when the available set holds exactly one agent, who has an address and went
\* available once, concurrent route requests for distinct calls set at most one
\* call to assigned with that agent.
NoDoubleAssignment ==
    \A a \in Agents :
        (/\ availCount[a] = 1
         /\ hasAddress[a]
         /\ \A o \in Agents \ {a} : availCount[o] = 0)
        => Cardinality(CallsAssignedTo(a)) <= 1

\* The step of dequeue_call that reads the head of a queue.
ReadsHead(p) == proc[p].pc = "dq_read" /\ proc'[p].pc = "dq_rem"

\* C2: while a queue holds an entry of priority 2 for one call and an entry of
\* priority 8 for another, a dequeue takes the one of priority 2, the more urgent.
UrgentEntryFirst ==
    [][\A p \in Procs :
          ReadsHead(p) =>
              ~(/\ proc'[p].head.priority = LowPriority
                /\ \E e \in queue[proc[p].queue] :
                       e.priority = HighPriority /\ e.call_id # proc'[p].head.call_id)]_vars

IndexIn(s, e) == CHOOSE i \in 1..Len(s) : s[i] = e

\* C3: among the entries of one priority a dequeue takes the one enqueued first,
\* also when they were enqueued at the same clock reading.
FifoWithinPriority ==
    [][\A p \in Procs :
          ReadsHead(p) =>
              LET order == enqOrder[proc[p].queue]
                  h == proc'[p].head
              IN \A e \in queue[proc[p].queue] :
                     e.priority = h.priority => IndexIn(order, h) <= IndexIn(order, e)]_vars

LegsInProgress(c) == {l \in legs : l.call = c /\ l.status \in {"active", "connecting"}}

\* C4: every call has at most one leg whose status is active or connecting.
AtMostOneLegInProgress == \A c \in Calls : Cardinality(LegsInProgress(c)) <= 1

EntriesOf(c) == {x \in UNION {{<<q, e>> : e \in queue[q]} : q \in Queues} : x[2].call_id = c}

\* C5: however often route runs for a call, the queues hold at most one entry of
\* the call, in at most one queue.
AtMostOneEntryPerCall == \A c \in Calls : Cardinality(EntriesOf(c)) <= 1

\* C6: every dequeue operation that returns an entry is the one that removed it:
\* no entry is handed to two concurrent dequeue operations.
NoEntryDequeuedTwice == \A r \in dqLog : r.removed

\* C7: once the latest set_agent_status of an agent, to busy, has completed, the
\* agent is not in the available set, whatever earlier call raced with it.
BusyAgentNotAvailable ==
    \A a \in Agents :
        (latest[a].status = "busy" /\ latest[a].done) => a \notin statusSet["available"]

\* C8: when the conference operations on a name have finished, the last of them a
\* get-or-create, exactly one active conference record has that name.
OneActiveConferenceAfterGetOrCreate ==
    \A a \in Agents :
        (/\ confLast[AgentConference(a)] = "goc"
         /\ \A p \in Procs : proc[p].op = "idle")
        => Cardinality(ActiveConferences(AgentConference(a))) = 1

\* The agents a selection may return: in the available set, with an address and a
\* record that reads available.
ValidAgents ==
    {a \in statusSet["available"] : hasAddress[a] /\ agentRec[a].status = "available"}

\* C9: with N valid available agents and no status change, any N successive
\* selections of a queue return N different agents.
RoundRobinFair ==
    LET log == selLog[QueueOrder[1]]
        n == Cardinality(ValidAgents)
    IN \A i \in 1..Len(log) :
           i + n - 1 <= Len(log) => Cardinality({log[j] : j \in i..(i + n - 1)}) = n

\* C10: whatever dependency fails during route, the caller gets a hold or fallback
\* decision, never the error response with its hangup.
RouteNeverAnswersError == \A c \in Calls : decision[c].kind # "error"

\* The step in which route commits the assignment of its call to the selected agent.
AssignsAgent(p) == proc[p].pc = "r_assign" /\ proc'[p].op = "idle" /\ down # "db"

\* The number of the call's latest leg, 0 when it has none.
LastLegNumber(c) ==
    LET ns == {l.leg_number : l \in {x \in legs : x.call = c}}
    IN IF ns = {} THEN 0 ELSE CHOOSE n \in ns : \A m \in ns : m <= n

\* C11: when route selects agent A for call C, the call is assigned to A, an active
\* conference interaction-C exists, a new human_agent leg in status connecting is
\* numbered one above the call's previous leg, the event sent to A's room names
\* interaction-C, and the answer joins the customer into interaction-C.
AssignmentIsComplete ==
    [][\A p \in Procs :
          AssignsAgent(p) =>
              LET c == proc[p].call
                  a == proc[p].agent
                  name == InteractionConference(c)
              IN /\ calls'[c].status = "assigned"
                 /\ calls'[c].assigned_agent_id = a
                 /\ \E k \in conferences' : k.name = name /\ k.status = "active"
                 /\ \E l \in legs' \ legs :
                        /\ l.call = c
                        /\ l.leg_type = "human_agent"
                        /\ l.status = "connecting"
                        /\ l.leg_number = LastLegNumber(c) + 1
                 /\ \E r \in assignLog' :
                        r.call = c /\ r.agent = a /\ r.conference_name = name
                 /\ decision'[c].kind = "join"
                 /\ decision'[c].conf = name]_vars

\* The step in which route, having found no agent, answers with hold or fallback.
AnswersWithoutAgent(p) == proc[p].pc = "r_hold" /\ proc'[p].op = "idle" /\ down # "db"

\* How long the oldest queue entry of the call has been waiting, 0 without an entry.
WaitedInQueue(c) ==
    LET ts == {x[2].enqueued_at : x \in EntriesOf(c)}
    IN IF ts = {} THEN 0 ELSE now - (CHOOSE t \in ts : \A u \in ts : t <= u)

\* C12: when route finds no agent, it answers with the AI fallback (sales to
\* sales-ai, support to support-ai) exactly when the call has been in the queue for
\* more than 120 seconds, and with a hold otherwise, however old the call record is.
FallbackIffWaitedInQueue ==
    [][\A p \in Procs :
          AnswersWithoutAgent(p) =>
              LET c == proc[p].call
                  q == proc[p].queue
              IN IF WaitedInQueue(c) > MAX_WAIT_BEFORE_AI_OFFER
                 THEN /\ decision'[c].kind = "fallback"
                      /\ decision'[c].dest = (IF q = "sales" THEN "sales-ai" ELSE "support-ai")
                 ELSE decision'[c].kind = "hold"]_vars

\* The step of enqueue_call that scans the queue for the call's position.
ScansPosition(p) == proc[p].pc = "r_pos" /\ proc'[p].pc = "r_avail"

\* One more than the number of entries of other calls that sort before every entry
\* of the call.
RankInQueue(S, c) ==
    1 + Cardinality({e \in S : e.call_id # c /\ \A m \in S : m.call_id = c => Before(e, m)})

\* C13: when route finds no agent within the wait threshold, the hold answer
\* announces the 1-based position the call had in its queue when route scanned it
\* (1 when no other call waits there) and ends by re-invoking route of that queue.
HoldAnnouncesPosition ==
    [][\A p \in Procs :
          LET c == proc[p].call
              q == proc[p].queue
          IN /\ (ScansPosition(p) /\ \E e \in queue[q] : e.call_id = c) =>
                    proc'[p].position = RankInQueue(queue[q], c)
             /\ (AnswersWithoutAgent(p) /\ now - calls[c].created_at <= MAX_WAIT_BEFORE_AI_OFFER) =>
                    /\ decision'[c].kind = "hold"
                    /\ decision'[c].position = proc[p].position
                    /\ decision'[c].position >= 1
                    /\ decision'[c].requeue = q]_vars

\* The place of a status on the path waiting, assigned, active, ended; failed ends
\* the path as ended does.
StatusRank(s) ==
    IF s = "waiting" THEN 1 ELSE IF s = "assigned" THEN 2 ELSE IF s = "active" THEN 3 ELSE 4

PathStatuses == {"waiting", "assigned", "active", "ended", "failed"}

\* C14: no step moves a call out of ended or failed, and no step moves a call from
\* one of waiting, assigned, active, ended to an earlier one of them.
StatusOnlyMovesForward ==
    [][\A c \in Calls :
          LET s == calls[c].status
              t == calls'[c].status
          IN /\ s \in {"ended", "failed"} => t = s
             /\ (s \in PathStatuses /\ t \in PathStatuses) => StatusRank(s) <= StatusRank(t)]_vars

\* C15: a route request that found its call in status assigned selects no agent,
\* creates no leg and no conference, and leaves the call's assigned agent as it was.
AssignedCallNotRerouted ==
    [][\A p \in Procs :
          (proc[p].op = "route" /\ proc[p].seen = "assigned" /\ proc'[p] # proc[p]) =>
              LET c == proc[p].call
              IN /\ proc'[p].pc # "dq_read"
                 /\ legs' = legs
                 /\ conferences' = conferences
                 /\ calls'[c].assigned_agent_id = calls[c].assigned_agent_id]_vars

\* The step in which the join event of the customer's call is handled.
CustomerJoins(c) ==
    \E x \in participants' \ participants : x.call_sid = c /\ x.type = "customer"

\* C16: when the customer's call joins the interaction conference of a call in
\* status assigned, the call becomes active and its connecting leg for that
\* conference becomes active.
JoinActivatesAssignedCall ==
    [][\A c \in Calls :
          (CustomerJoins(c) /\ calls[c].status = "assigned") =>
              /\ calls'[c].status = "active"
              /\ \E l \in LegsOf(c, InteractionConference(c), "connecting") :
                     [l EXCEPT !.status = "active"] \in legs']_vars

\* Conference.get_active_participant_count, by conference id
ActiveParticipantCount(id) ==
    Cardinality({y \in participants : y.conf = id /\ y.status = "active"})

\* C17: when the leave event of an active customer participant is handled, the
\* call's active leg for that conference is completed with reason customer_left,
\* the call's status is ended or completed, and the conference has exactly one
\* active participant fewer.
CustomerLeaveEndsLegAndCall ==
    [][\A c \in Calls :
          \A x \in ActiveParticipants(c) :
              (x.type = "customer" /\ x \notin participants' /\ calls[c].status # "none") =>
                  LET name == InteractionConference(c)
                  IN /\ \A l \in LegsOf(c, name, "active") :
                            \E m \in legs' :
                                /\ m.id = l.id
                                /\ m.status = "completed"
                                /\ m.reason = "customer_left"
                     /\ calls'[c].status \in {"ended", "completed"}
                     /\ ActiveParticipantCount(x.conf)' = ActiveParticipantCount(x.conf) - 1]_vars

\* A customer has left, the leg was closed for that reason and the call is completed.
CustomerHasLeft ==
    \E c \in Calls :
        /\ \E x \in participants : x.call_sid = c /\ x.type = "customer" /\ x.status = "left"
        /\ \E l \in legs : l.call = c /\ l.status = "completed" /\ l.reason = "customer_left"
        /\ calls[c].status = "completed"

EndedStatuses == {"ended", "completed"}

\* C18: when a call ends, by the call-status webhook, the end request or the
\* customer's leave, it is left with no leg in status active or connecting and with
\* no entry in any queue.
EndedCallLeavesNothingBehind ==
    [][\A c \in Calls :
          (calls[c].status \notin EndedStatuses /\ calls'[c].status \in EndedStatuses) =>
              /\ LegsInProgress(c)' = {}
              /\ EntriesOf(c)' = {}]_vars

\* C19: a call in status assigned whose agent never joins does not stay assigned:
\* it returns to waiting with a queue entry, or gets the AI fallback.
AssignedCallIsRecovered ==
    \A c \in Calls :
        (calls[c].status = "assigned") ~>
            \/ calls[c].status = "waiting" /\ EntriesOf(c) # {}
            \/ decision[c].kind = "fallback"

EverAssigned(c) == \E r \in assignLog : r.call = c

\* C20: with the gateway re-invoking route and time advancing, a call in the hold
\* loop that is never assigned to an agent eventually gets the AI-fallback answer.
HoldLoopEndsInFallback ==
    \A c \in Calls :
        (decision[c].kind = "hold") ~> (decision[c].kind = "fallback" \/ EverAssigned(c))

\* A call that was held and never assigned has got the fallback answer.
HeldCallGotFallback ==
    \E c \in Calls :
        /\ decision[c].kind = "fallback"
        /\ ~EverAssigned(c)
        /\ now - calls[c].created_at > MAX_WAIT_BEFORE_AI_OFFER
        /\ Cardinality(EntriesOf(c)) > 1

\* The status sets that hold the agent.
SetsHolding(a) == {s \in DOMAIN statusSet : a \in statusSet[s]}

\* C21: after any sequence of set_agent_status events handled one after the other,
\* with statuses among available, busy, after-call, break, offline, each agent is
\* in exactly one status set, the set of its most recent status.
OneStatusSetPerAgent ==
    (\A p \in Procs : proc[p].op = "idle") =>
        \A a \in Agents : latest[a].id # 0 => SetsHolding(a) = {latest[a].status}

\* C22: every call reference has at most one participant record in status active;
\* a duplicate or concurrent join event for a call reference that has an active
\* participant creates no second one.
AtMostOneActiveParticipant == \A c \in Calls : Cardinality(ActiveParticipants(c)) <= 1

\* The step in which the end request commits.
EndCommits(p) == proc[p].pc = "end_commit" /\ proc'[p].op = "idle"

\* C23: after the end request of a conference name, the conference has status
\* ended and every participant of it that was active has status left.
EndEndsConferenceAndParticipants ==
    [][\A p \in Procs :
          EndCommits(p) =>
              LET ended == {k.id : k \in {x \in conferences : x.name = proc[p].conf}}
              IN /\ ended # {}
                 /\ \A k \in conferences' : k.id \in ended => k.status = "ended"
                 /\ \A x \in participants :
                        (x.conf \in ended /\ x.status = "active") =>
                            [x EXCEPT !.status = "left"] \in participants']_vars

\* A conference was ended while it had a participant: one join event and the end
\* request were served, no leave event and no move.
EndedWithParticipant ==
    \E k \in conferences :
        /\ k.status = "ended"
        /\ confLast[k.name] = "end"
        /\ \E x \in participants : x.conf = k.id /\ x.status = "left"
        /\ budget["webhook"] = MaxPartOps - 1
        /\ budget["conf"] = 0

\* C24: every answer of the route, hold-menu and hold-loop endpoints, on success
\* and on failure alike, holds a spoken message: no caller is answered with
\* silence only or with a bare error.
EveryAnswerSpeaks ==
    \A c \in Calls :
        decision[c].kind # "none" =>
            \E i \in DOMAIN Swml(decision[c]) : Swml(decision[c])[i] \in {"say", "prompt_say"}

\* The step of enqueue_call that adds the entry of the request to the queue.
Enqueues(p) == proc[p].pc = "r_enqueue" /\ proc'[p].pc = "r_pos"

\* C25: route enqueues with the priority the request supplies when it supplies
\* one; urgency is mapped (high to 2, medium to 5, low to 8, anything else to 5)
\* only when no priority was supplied, and never overrides a supplied priority.
SuppliedPriorityWins ==
    [][\A p \in Procs :
          (Enqueues(p) /\ proc[p].req # Idle.req) =>
              LET r == proc[p].req
                  supplied == IF r.priority # 0 THEN r.priority ELSE r.global_priority
                  e == CHOOSE x \in queue'[proc[p].queue] :
                           x.call_id = proc[p].call /\ x.enqueued_at = now
              IN IF supplied # 0 THEN e.priority = supplied
                 ELSE IF r.urgency \in {"high", "HIGH"} THEN e.priority = 2
                 ELSE IF r.urgency = "low" THEN e.priority = 8
                 ELSE e.priority = 5]_vars

\* The candidate the pass of the selection loop examines.
Candidate(p) ==
    proc[p].avail[NextIndex(proc[p].last_index, proc[p].attempts, Len(proc[p].avail)) + 1]

\* The pass of the loop that selects its candidate.
Selects(p) == proc[p].pc = "r_scan" /\ (proc'[p].pc = "dq_read" \/ selLog' # selLog)

\* C26: every agent route selects has, when route reads it, a status record that
\* reads available; a candidate of the available set whose record is missing,
\* expired or not available is skipped and removed from the available set.
SelectedAgentIsAvailable ==
    [][\A p \in Procs :
          /\ (proc[p].pc = "r_scan" /\ proc'[p] # proc[p]) =>
                 /\ Selects(p) => agentRec[Candidate(p)].status = "available"
                 /\ agentRec[Candidate(p)].status # "available" =>
                        /\ ~Selects(p)
                        /\ proc'[p].pc = "r_heal"
                        /\ proc'[p].agent = Candidate(p)
          /\ (proc[p].pc = "r_heal" /\ proc'[p] # proc[p]) =>
                 proc[p].agent \notin statusSet'["available"]]_vars

\* C27: when route assigns call C to an agent, the entry its dequeue removed is
\* C's own: after the assignment the queue holds no entry of C, and the request
\* has removed no entry of another call.
AssignmentDequeuesOwnEntry ==
    [][\A p \in Procs :
          (AssignsAgent(p) /\ decision'[proc[p].call].kind = "join") =>
              /\ \A e \in queue'[proc[p].queue] : e.call_id # proc[p].call
              /\ \A r \in dqLog : r.op = proc[p].id => r.entry.call_id = proc[p].call]_vars

\* C28: the leg numbers of a call start at 1, are unique within the call and
\* strictly increase in the order the legs were created, whatever the status of
\* the call's latest leg when the next one is created.
LegNumbersIncrease ==
    \A l \in legs :
        /\ l.leg_number >= 1
        /\ (\A m \in legs : m.call = l.call => l.id <= m.id) => l.leg_number = 1
        /\ \A m \in legs : (m.call = l.call /\ l.id < m.id) => l.leg_number < m.leg_number

\* C29: create_next_leg on a call that has an active leg completes that leg in
\* the same operation, with ended_at set, the duration computed from the leg's own
\* start and end, and the reason given (by default takeover before a human_agent
\* leg, transfer otherwise); the new leg starts in status connecting.
NextLegEndsActiveLeg ==
    [][\A p \in Procs :
          (proc[p].pc = "l_next" /\ proc'[p].op = "idle" /\ ActiveLegs(proc[p].call) # {}) =>
              LET c == proc[p].call
                  type == proc[p].leg_type
                  reason == IF proc[p].reason # "none" THEN proc[p].reason
                            ELSE IF type = "human_agent" THEN "takeover" ELSE "transfer"
              IN /\ \E cur \in ActiveLegs(c) :
                        [cur EXCEPT !.status = "completed", !.ended_at = now,
                                    !.duration = now - cur.started_at,
                                    !.reason = reason] \in legs'
                 /\ \E new \in legs' \ legs :
                        new.call = c /\ new.leg_type = type /\ new.status = "connecting"]_vars

\* A leg that had been active for some time was completed by create_next_leg with
\* the default reason of a human_agent leg, which is connecting.
ActiveLegWasTakenOver ==
    \E l \in legs, m \in legs :
        /\ l.call = m.call
        /\ l.status = "completed" /\ l.reason = "takeover" /\ l.duration > 0
        /\ l.ended_at = l.started_at + l.duration
        /\ m.status = "connecting" /\ m.leg_type = "human_agent" /\ m.started_at = l.ended_at

\* C30: after a successful selection the cursor of the queue is the index the
\* selected agent has in the sorted available list the request read; the next
\* selection starts its scan at (cursor + 1) mod N, the passes before the selected
\* one being the skipped candidates; a scan that selects nobody leaves the cursor
\* as it was.
CursorFollowsSelection ==
    [][/\ \A p \in Procs :
             LET q == proc[p].queue
                 n == Len(proc[p].avail)
                 selected == IF proc'[p].pc = "dq_read" THEN proc'[p].agent
                             ELSE selLog'[q][Len(selLog'[q])]
             IN /\ (proc[p].pc = "r_avail" /\ proc'[p].pc = "r_scan") =>
                       /\ proc'[p].attempts = 0
                       /\ proc'[p].last_index = (IF rr[q] = NoCursor THEN -1 ELSE rr[q])
                /\ Selects(p) =>
                       /\ rr'[q] = (proc[p].last_index + 1 + proc[p].attempts) % n
                       /\ proc[p].avail[rr'[q] + 1] = selected
       /\ rr' # rr => \E p \in Procs : Selects(p)]_vars

\* Two selections in a row have succeeded, the second starting behind a cursor
\* that was not at the end of the list.
CursorAdvanced ==
    LET log == selLog[QueueOrder[1]]
    IN /\ Len(log) >= 2
       /\ log[Len(log)] # log[Len(log) - 1]
       /\ rr[QueueOrder[1]] >= 1
       /\ \A p \in Procs : proc[p].op = "idle"

\* C31: whenever no set_agent_status and no route is in progress, every agent whose
\* status record reads available is in the available set, however a
\* set_agent_status(agent, available) interleaves with a route request that is
\* removing the stale membership of the same agent.
AvailableRecordIsInSet ==
    (\A p \in Procs : proc[p].op = "idle") =>
        \A a \in Agents : agentRec[a].status = "available" => a \in statusSet["available"]

\* C32: an agent whose status record has expired is counted as available neither
\* by get_available_agents nor by the available_agents count of get_queue_metrics.
Expired(a) == agentRec[a] = NoRecord /\ availCount[a] > 0

ExpiredAgentNotCounted ==
    \A q \in Queues :
        /\ \A a \in Agents : Expired(a) => a \notin GetAvailableAgents(q)
        /\ GetQueueMetrics(q).available_agents
               = Cardinality({a \in statusSet["available"] : ~Expired(a)})

\* A step of a route request or of a conference get-or-create request.
RouteOrGocStep ==
    \E p \in Procs :
        /\ proc'[p] # proc[p]
        /\ proc[p].op \in {"route", "goc"} \/ proc'[p].op \in {"route", "goc"}

\* C33: no step of a route request, in any branch, and no step of a conference
\* get-or-create creates or changes a participant record; a new record comes
\* from a join event only.
OnlyJoinCreatesParticipants ==
    [][/\ RouteOrGocStep => participants' = participants
       /\ \A x \in participants' :
              (\A y \in participants : y.id # x.id) =>
                  /\ budget'["webhook"] = budget["webhook"] - 1
                  /\ proc' = proc
                  /\ x.status = "active"]_vars

\* A call was assigned by route and its conference fetched or created, and the only
\* participant record is the one the customer's join event made.
JoinedAfterAssignment ==
    \E c \in Calls :
        /\ \E e \in assignLog : e.call = c
        /\ \E l \in legs : l.call = c /\ l.status = "active"
        /\ \E k \in conferences : k.type = "agent"
        /\ Cardinality(participants) = 1
        /\ \A x \in participants : x.call_sid = c /\ x.type = "customer"

\* C34: in an agent's own conference at most one active participant is typed
\* agent, and no leg of a customer call is typed agent, whatever the order and
\* the overlap of the join events.
AgentTypeIsNotMisclassified ==
    \A k \in conferences :
        k.type = "agent" =>
            /\ Cardinality(AgentParticipants(k)) <= 1
            /\ \A x \in AgentParticipants(k) : calls[x.call_sid].status = "none"

\* The step of transfer_call that writes the target's record busy: the transfer
\* succeeds.
TransferSucceeds(p) ==
    /\ proc[p].op = "transfer" /\ proc[p].pc = "sas_setex" /\ proc[p].status = "busy"
    /\ proc'[p].pc = "sas_sadd"

\* The step of transfer_call that returns a failure result.
TransferFails(p) == proc[p].pc = "t_read" /\ proc'[p].op = "idle"

\* C35: transfer_call hands the call to the target agent only while the target's
\* status is available, and a transfer that fails changes no agent status, no
\* queue and no call record.
TransferNeedsAvailableTarget ==
    [][\A p \in Procs :
          /\ TransferSucceeds(p) => agentRec[proc[p].to].status = "available"
          /\ TransferFails(p) => UNCHANGED <<agentRec, statusSet, queue, calls>>]_vars

\* The agents call c has been handed to: by an assignment of route, or by a
\* dequeue that wrote the agent's record busy with the call.
HandedTo(c) ==
    {r.agent : r \in {x \in assignLog : x.call = c}} \cup
    {a \in Agents : agentRec[a].status = "busy" /\ agentRec[a].current_call_id = c}

\* C36: a call that was handed to an agent, by route or by a dequeue the agent
\* started, is never handed to a different agent by a later route request or
\* dequeue.
CallHandedToOneAgent == \A c \in Calls : Cardinality(HandedTo(c)) <= 1

\* C37: when route has assigned call C to agent A, the status record of A reads
\* busy with current call C, whatever the head of the queue was and also when
\* the queue was emptied meanwhile.
AssignedAgentBusyWithCall ==
    [][\A p \in Procs :
          (AssignsAgent(p) /\ decision'[proc[p].call].kind = "join") =>
              agentRec'[proc[p].agent] =
                  [status |-> "busy", current_call_id |-> proc[p].call]]_vars

\* The step in which a route request that has selected an agent and dequeued
\* fails: the except branch answers with the error SWML.
FailsAfterSelection(p) ==
    /\ proc[p].op = "route" /\ proc[p].pc = "r_assign" /\ proc'[p].op = "idle"
    /\ decision'[proc[p].call].kind = "error"

\* C38: when route fails after it has selected an agent, the agent is not left
\* busy, the call still has its queue entry and the call is not left assigned.
FailedRouteLeavesNothingBehind ==
    [][\A p \in Procs :
          FailsAfterSelection(p) =>
              LET c == proc[p].call
              IN /\ agentRec'[proc[p].agent].status # "busy"
                 /\ \E q \in Queues : \E e \in queue'[q] : e.call_id = c
                 /\ proc[p].seen # "assigned" => calls'[c].status # "assigned"]_vars

\* The step in which the leave event of a request is handled.
LeaveServed(p) == proc[p].pc = "lv_commit" /\ proc'[p].op = "idle"

\* C39: the leave event of a participant that was muted marks the participant
\* left and, for the customer of a call, ends the call's active leg of that
\* conference and the call, as it does for a participant that was not muted.
MutedParticipantLeaves ==
    [][\A p \in Procs :
          LeaveServed(p) =>
              LET c == proc[p].call
                  name == proc[p].conf
              IN \A x \in participants :
                     (/\ x.call_sid = c /\ x.status = "muted"
                      /\ \E k \in ActiveConferences(name) : x.conf = k.id) =>
                         /\ ParticipantLeave(x) \in participants'
                         /\ (x.type = "customer" /\ calls[c].status # "none") =>
                                /\ \A l \in legs' : ~(l.call = c /\ l.conf = name
                                                         /\ l.status = "active")
                                /\ calls'[c].status \in {"completed", "ended"}]_vars

\* Agent a has an address and its status record reads available, written by a
\* set_agent_status that had returned before request p was started.
AvailableBefore(a, p) ==
    /\ hasAddress[a]
    /\ agentRec[a].status = "available"
    /\ latest[a].done /\ latest[a].id < proc[p].id

\* The step in which the hold loop's route request for a call answers with hold or
\* fallback again.
HoldsAgain(p) ==
    /\ proc[p].op = "route" /\ proc[p].pc = "r_hold" /\ proc'[p].op = "idle"
    /\ decision[proc[p].call].kind = "hold"

\* C40: once a valid agent is available and stays so, the next route request the
\* hold loop makes for a waiting call assigns the call, also when the call has
\* waited longer than the fallback threshold: it does not hold the call again.
NextRouteAssignsWaitingCall ==
    [][\A p \in Procs : HoldsAgain(p) => \A a \in Agents : ~AvailableBefore(a, p)]_vars

====
